---- MODULE Spec2Model ----
(***************************************************************************)
(* Model of the Seller document of src/src/models/Seller.js: its schema    *)
(* defaults, its instance methods and the save path they all end in.       *)
(*                                                                         *)
(* Encoding of JavaScript values:                                          *)
(*   - a Date is an integer clock reading; a null Date is NoDate;          *)
(*   - null and undefined strings / ids are the sentinels Null, Undefined; *)
(*   - an optional numeric argument is a sequence, << >> when it is        *)
(*     omitted (or null) and <<n>> when n is passed;                       *)
(*   - statistics.averageRating and the newRating argument are kept in     *)
(*     integer hundredths (4.50 is 450), and computed with as doubles;     *)
(*   - an object literal is a function from its keys to its values.        *)
(***************************************************************************)
EXTENDS Integers, Sequences, FiniteSets, TLC

VARIABLES
    db,      \* the stored seller document
    doc,     \* doc[c]: the in-memory document caller c loaded
    base,    \* base[c]: doc[c] as last loaded or sent (mongoose's change tracking)
    whole,   \* whole[c]: the nested paths of doc[c] assigned an object since then
    full,    \* full[c]: the nested paths of doc[c] that hold every key of the schema
    invalid, \* invalid[c]: the paths of doc[c] whose last assignment failed its cast
    saving,  \* saving[c]: the call whose save of doc[c] has not settled, or NoSave
    now,     \* the clock read by new Date()
    pre,     \* the in-memory document of the last call, before the call
    call,    \* the last call made or settled: name, caller, arguments, times, outcome
    ledger,  \* what the successful calls so far have asked for, summed
    budget   \* <<k>> where at most k more calls are explored, << >> where any number

vars == <<db, doc, base, whole, full, invalid, saving, now, pre, call, ledger, budget>>

----------------------------------------------------------------------------
(* Bounds of the model *)

MaxTicks == 1          \* clock readings are T0 .. T0 + MaxTicks
SuspendDays == 7       \* the positive daysCount tried by suspend
MaxAmount == 3         \* amounts of money are 0 .. MaxAmount (and -1)
MaxEarnings == 4       \* no credit takes an earnings counter above this
MaxCount == 3          \* product counts are 0 .. MaxCount
MaxRatings == 4        \* number of ratings recorded
MaxOrders == 2         \* number of orders recorded
MaxCalls == 3          \* calls in a behaviour that tries every method

T0 == SuspendDays + 1  \* the clock at construction

Null == "<null>"
Undefined == "<undefined>"
NoDate == -1

Callers == {"c1", "c2"}
\* a second handler that holds a reference to the document c1 loaded
Sharers == {"c1b"}
Admins == {"admin1", "admin2"}
Reasons == {"policy"}
ReasonArgs == Reasons \cup {"", Null, Undefined}
DaysArgs == {-1, SuspendDays}
RateArgs == {-1, 0, 50, 100, 101}
CodRateArgs == {<< >>} \cup {<<r>> : r \in RateArgs}
AmountArgs == -1 .. MaxAmount
CountArgs == 0 .. MaxCount
RatingArgs == {-1, 0, 29, 250, 400, 500, 501}
DocumentTypes == {"gst", "pan", "bank", "address"}
DocumentTypeArgs == DocumentTypes \cup {"aadhaar", Undefined}
BankDataArgs ==
    { << >>,
      [accountNumber |-> "123456789"],
      [accountNumber |-> "987654321", bankName |-> "SBI"],
      [isVerified |-> TRUE],
      [upiId |-> "shop@upi", isVerified |-> TRUE, verifiedAt |-> T0] }
AddressDataArgs == { << >>, [city |-> "Pune"], [city |-> "Delhi", zipCode |-> "11000"] }
StatsUpdateArgs ==
    { << >> } \cup { [totalProducts |-> n] : n \in CountArgs }
              \cup { [activeProducts |-> n] : n \in CountArgs }
\* caller-supplied statistics outside the schema's ranges, and one inside
AnyStatsArgs ==
    { [totalOrders |-> MaxOrders, averageRating |-> 500],
      [totalEarnings |-> -1],
      [totalProducts |-> -1, activeProducts |-> 1],
      [averageRating |-> 501, totalRatings |-> -1],
      [totalRatings |-> -1] }
Statuses == {"pending", "approved", "blocked", "suspended"}
BusinessTypes == {"local", "dropship"}

----------------------------------------------------------------------------
(* JavaScript helpers *)

\* !v for a string-or-absent value
Falsy(v) == v \in {"", Null, Undefined}

\* a || b
OrElse(a, b) == IF Falsy(a) THEN b ELSE a

\* a parameter default: v is replaced by dflt only when v is undefined
Default(v, dflt) == IF v = Undefined THEN dflt ELSE v

\* { ...a, ...b }
Spread(a, b) ==
    [k \in (DOMAIN a) \cup (DOMAIN b) |-> IF k \in DOMAIN b THEN b[k] ELSE a[k]]

\* Math.max(a, b)
Max(a, b) == IF a >= b THEN a ELSE b

----------------------------------------------------------------------------
(* JavaScript numbers.  The counters and amounts of the model are integers *)
(* the code computes exactly.  A rating is a double that is not an integer, *)
(* and the arithmetic of updateRating rounds after every operation: it is  *)
(* done here as IEEE-754 does it.  A non-negative double below 2^15 is     *)
(* held as the natural number x with value x / 2^75, written as a tuple   *)
(* of six limbs of 15 bits, x[1] the lowest: x[6] is the integer part.     *)
(* Every double from 2^-21 up to 2^15 is such a number.                    *)

Limb == 2 ^ 15

\* the integer k, 0 <= k < 2^15
FromInt(k) == <<0, 0, 0, 0, 0, k>>

\* x * k, exactly: limb by limb from the lowest, carrying upwards
MulSmall(x, k) ==
    LET v1 == x[1] * k
        v2 == x[2] * k + v1 \div Limb
        v3 == x[3] * k + v2 \div Limb
        v4 == x[4] * k + v3 \div Limb
        v5 == x[5] * k + v4 \div Limb
        v6 == x[6] * k + v5 \div Limb
    IN  <<v1 % Limb, v2 % Limb, v3 % Limb, v4 % Limb, v5 % Limb, v6 % Limb>>

\* x / k cut off below 2^-75, and whether anything was cut off: long
\* division from the highest limb, the remainder carried downwards
DivSmall(x, k) ==
    LET v6 == x[6]
        v5 == (v6 % k) * Limb + x[5]
        v4 == (v5 % k) * Limb + x[4]
        v3 == (v4 % k) * Limb + x[3]
        v2 == (v3 % k) * Limb + x[2]
        v1 == (v2 % k) * Limb + x[1]
    IN  [ quotient |-> <<v1 \div k, v2 \div k, v3 \div k,
                         v4 \div k, v5 \div k, v6 \div k>>,
          inexact  |-> v1 % k # 0 ]

\* x + y, exactly
Add(x, y) ==
    LET v1 == x[1] + y[1]
        v2 == x[2] + y[2] + v1 \div Limb
        v3 == x[3] + y[3] + v2 \div Limb
        v4 == x[4] + y[4] + v3 \div Limb
        v5 == x[5] + y[5] + v4 \div Limb
        v6 == x[6] + y[6] + v5 \div Limb
    IN  <<v1 % Limb, v2 % Limb, v3 % Limb, v4 % Limb, v5 % Limb, v6 % Limb>>

\* the number of bits of x up to its leading one
BitLen(x) ==
    LET nonzero == {i \in 1 .. 6 : x[i] # 0}
    IN  IF nonzero = {} THEN 0
        ELSE LET top == CHOOSE i \in nonzero : \A j \in nonzero : j <= i
             IN  15 * (top - 1) + Cardinality({b \in 0 .. 14 : 2 ^ b <= x[top]})

\* bit p of x, the lowest being bit 0
Bit(x, p) == (x[p \div 15 + 1] \div 2 ^ (p % 15)) % 2

\* some bit of x below bit p is set
LowNonzero(x, p) ==
    \/ \E i \in 1 .. p \div 15 : x[i] # 0
    \/ x[p \div 15 + 1] % 2 ^ (p % 15) # 0

\* x with the bits below bit p cleared
Trunc(x, p) ==
    LET limb(i) == IF i < p \div 15 + 1 THEN 0
                   ELSE IF i = p \div 15 + 1
                        THEN (x[i] \div 2 ^ (p % 15)) * 2 ^ (p % 15)
                        ELSE x[i]
    IN  <<limb(1), limb(2), limb(3), limb(4), limb(5), limb(6)>>

\* 2^p
Unit(p) ==
    LET limb(i) == IF i = p \div 15 + 1 THEN 2 ^ (p % 15) ELSE 0
    IN  <<limb(1), limb(2), limb(3), limb(4), limb(5), limb(6)>>

\* the double nearest to x, or to a value just above x when inexact says
\* that something was cut off below it: 53 significant bits, ties to even
Round53(x, inexact) ==
    IF BitLen(x) <= 53 THEN x
    ELSE LET p  == BitLen(x) - 53
             up == /\ Bit(x, p - 1) = 1
                   /\ (LowNonzero(x, p - 1) \/ inexact \/ Bit(x, p) = 1)
         IN  IF up THEN Add(Trunc(x, p), Unit(p)) ELSE Trunc(x, p)

\* the double of the decimal h / 100, as the literal 0.29 or the stored
\* result of Math.round(...) / 100 is
Hundredths(h) ==
    LET q == DivSmall(FromInt(h), 100) IN Round53(q.quotient, q.inexact)

\* a * k, a + b and a / k of doubles a, b and an integer k
Times(a, k) == Round53(MulSmall(a, k), FALSE)
Plus(a, b) == Round53(Add(a, b), FALSE)
Over(a, k) == LET q == DivSmall(a, k) IN Round53(q.quotient, q.inexact)

\* Math.round(a): the nearest integer, an exact half going up
MathRound(a) == a[6] + (IF a[5] >= Limb \div 2 THEN 1 ELSE 0)

\* the Number Infinity, where a path counted in hundredths holds it; its
\* negative is -Infinity. No hundredths of a finite value here come near it.
Infinity == 1000000000

Finite(v) == v # Infinity /\ v # -Infinity

\* Math.sign(v)
Sign(v) == IF v > 0 THEN 1 ELSE IF v < 0 THEN -1 ELSE 0

----------------------------------------------------------------------------
(* The schema: a document as new Seller({userId, shopName, businessType})  *)
(* builds it, every other path at its default                              *)

NewSeller(businessType) ==
    [ businessType      |-> businessType,
      commissionRate    |-> 5,
      codEnabled        |-> TRUE,
      codCommissionRate |-> 0,
      status            |-> "pending",
      statusReason      |-> Null,
      statusChangedAt   |-> NoDate,
      statusChangedBy   |-> Null,
      bankDetails       |-> [isVerified |-> FALSE, verifiedAt |-> NoDate],
      address           |-> [country |-> "India"],
      statistics        |-> [ totalProducts    |-> 0,
                              activeProducts   |-> 0,
                              totalOrders      |-> 0,
                              completedOrders  |-> 0,
                              cancelledOrders  |-> 0,
                              totalEarnings    |-> 0,
                              pendingEarnings  |-> 0,
                              withdrawnAmount  |-> 0,
                              averageRating    |-> 0,
                              totalRatings     |-> 0,
                              responseRate     |-> 0,
                              shippingAccuracy |-> 0 ],
      documentVerification |-> [ gstVerified         |-> FALSE,
                                 panVerified         |-> FALSE,
                                 bankVerified        |-> FALSE,
                                 addressVerified     |-> FALSE,
                                 documentSubmittedAt |-> NoDate,
                                 documentVerifiedAt  |-> NoDate ],
      approvedAt        |-> NoDate,
      lastActivityAt    |-> NoDate,
      suspendedUntil    |-> NoDate,
      isActive          |-> TRUE ]

\* Seller.create: the first save of a new document, which the pre('save')
\* hook finds modified
Created(d, t) == [d EXCEPT !.lastActivityAt = t]

\* the schema without min: 0 on statistics.totalProducts
SchemaValid_noProductsMin(d) ==
    /\ d.businessType \in BusinessTypes
    /\ d.commissionRate >= 0 /\ d.commissionRate <= 100
    /\ d.codCommissionRate >= 0 /\ d.codCommissionRate <= 100
    /\ d.status \in Statuses
    /\ d.statistics.activeProducts >= 0
    /\ d.statistics.totalOrders >= 0
    /\ d.statistics.completedOrders >= 0
    /\ d.statistics.cancelledOrders >= 0
    /\ d.statistics.totalEarnings >= 0
    /\ d.statistics.pendingEarnings >= 0
    /\ d.statistics.withdrawnAmount >= 0
    /\ d.statistics.averageRating >= 0 /\ d.statistics.averageRating <= 500
    /\ d.statistics.totalRatings >= 0
    /\ d.statistics.responseRate >= 0 /\ d.statistics.responseRate <= 100
    /\ d.statistics.shippingAccuracy >= 0 /\ d.statistics.shippingAccuracy <= 100

\* the schema's validators (enum, min, max), run by save
SchemaValid(d) ==
    /\ d.businessType \in BusinessTypes
    /\ d.commissionRate >= 0 /\ d.commissionRate <= 100
    /\ d.codCommissionRate >= 0 /\ d.codCommissionRate <= 100
    /\ d.status \in Statuses
    /\ d.statistics.totalProducts >= 0
    /\ d.statistics.activeProducts >= 0
    /\ d.statistics.totalOrders >= 0
    /\ d.statistics.completedOrders >= 0
    /\ d.statistics.cancelledOrders >= 0
    /\ d.statistics.totalEarnings >= 0
    /\ d.statistics.pendingEarnings >= 0
    /\ d.statistics.withdrawnAmount >= 0
    /\ d.statistics.averageRating >= 0 /\ d.statistics.averageRating <= 500
    /\ d.statistics.totalRatings >= 0
    /\ d.statistics.responseRate >= 0 /\ d.statistics.responseRate <= 100
    /\ d.statistics.shippingAccuracy >= 0 /\ d.statistics.shippingAccuracy <= 100

----------------------------------------------------------------------------
(* Virtuals and read-only methods *)

\* isEligibleForPayout with the earnings test let through at zero
isEligibleForPayout_zeroEarnings(d) ==
    /\ d.status = "approved"
    /\ d.isActive
    /\ d.documentVerification.bankVerified
    /\ d.statistics.totalEarnings >= 0

isEligibleForPayout(d) ==
    /\ d.status = "approved"
    /\ d.isActive
    /\ d.documentVerification.bankVerified
    /\ d.statistics.totalEarnings > 0

\* getEligibility with cash on delivery gated by codEnabled alone
getEligibility_codUngated(d) ==
    [ canListProducts     |-> d.status = "approved" /\ d.isActive,
      canAcceptOrders     |-> d.status = "approved" /\ d.isActive,
      canWithdrawEarnings |-> isEligibleForPayout(d),
      canUseCOD           |-> d.codEnabled,
      canAcceptDropship   |-> d.businessType = "dropship" /\ d.status = "approved" ]

getEligibility(d) ==
    [ canListProducts     |-> d.status = "approved" /\ d.isActive,
      canAcceptOrders     |-> d.status = "approved" /\ d.isActive,
      canWithdrawEarnings |-> isEligibleForPayout(d),
      canUseCOD           |-> d.codEnabled /\ d.status = "approved",
      canAcceptDropship   |-> d.businessType = "dropship" /\ d.status = "approved" ]

----------------------------------------------------------------------------
(* Instance methods, up to their call of save: each gives the in-memory    *)
(* document it leaves and whether it threw before reaching save            *)

\* what the body of a method made of the document d: it threw, or it went
\* on to save; failed holds the paths it assigned a value that failed its
\* cast, which keep the value they had
Threw(d) == [threw |-> TRUE, doc |-> d, failed |-> {}]
ToSave(d) == [threw |-> FALSE, doc |-> d, failed |-> {}]
CastFailed(d, paths) == [threw |-> FALSE, doc |-> d, failed |-> paths]

\* approve that leaves isActive as it finds it
approve_keepsInactive(d, approvedBy, reason, t) ==
    ToSave([d EXCEPT !.status = "approved",
                     !.approvedAt = t,
                     !.statusChangedAt = t,
                     !.statusChangedBy = approvedBy,
                     !.statusReason = OrElse(Default(reason, ""), "Seller approved by admin")])

approve(d, approvedBy, reason, t) ==
    ToSave([d EXCEPT !.status = "approved",
                     !.approvedAt = t,
                     !.statusChangedAt = t,
                     !.statusChangedBy = approvedBy,
                     !.statusReason = OrElse(Default(reason, ""), "Seller approved by admin"),
                     !.isActive = TRUE])

\* block with the reason test passing null and undefined
block_emptyOnly(d, blockedBy, reason, t) ==
    IF reason = ""
    THEN Threw(d)
    ELSE ToSave([d EXCEPT !.status = "blocked",
                          !.isActive = FALSE,
                          !.statusChangedAt = t,
                          !.statusChangedBy = blockedBy,
                          !.statusReason = reason])

block(d, blockedBy, reason, t) ==
    IF Falsy(reason)
    THEN Threw(d)
    ELSE ToSave([d EXCEPT !.status = "blocked",
                          !.isActive = FALSE,
                          !.statusChangedAt = t,
                          !.statusChangedBy = blockedBy,
                          !.statusReason = reason])

\* suspend that takes a deadline that is not in the future as already expired
suspend_expiredAtOnce(d, suspendedBy, daysCount, reason, t) ==
    IF daysCount <= 0
    THEN ToSave([d EXCEPT !.suspendedUntil = t + daysCount])
    ELSE ToSave([d EXCEPT !.status = "suspended",
                          !.suspendedUntil = t + daysCount,
                          !.statusChangedAt = t,
                          !.statusChangedBy = suspendedBy,
                          !.statusReason = reason])

suspend(d, suspendedBy, daysCount, reason, t) ==
    ToSave([d EXCEPT !.status = "suspended",
                     !.suspendedUntil = t + daysCount,
                     !.statusChangedAt = t,
                     !.statusChangedBy = suspendedBy,
                     !.statusReason = reason])

\* unsuspend that keeps the suspension deadline
unsuspend_keepsDeadline(d, unsuspendedBy, t) ==
    ToSave([d EXCEPT !.status = "approved",
                     !.statusChangedAt = t,
                     !.statusChangedBy = unsuspendedBy,
                     !.statusReason = "Seller unsuspended by admin",
                     !.isActive = TRUE])

unsuspend(d, unsuspendedBy, t) ==
    ToSave([d EXCEPT !.status = "approved",
                     !.suspendedUntil = NoDate,
                     !.statusChangedAt = t,
                     !.statusChangedBy = unsuspendedBy,
                     !.statusReason = "Seller unsuspended by admin",
                     !.isActive = TRUE])

\* updateCommissionRate without the lower limit
updateCommissionRate_noLowerLimit(d, newRate, updatedBy, t) ==
    IF newRate > 100
    THEN Threw(d)
    ELSE ToSave([d EXCEPT !.commissionRate = newRate,
                          !.lastActivityAt = t])

updateCommissionRate(d, newRate, updatedBy, t) ==
    IF newRate < 0 \/ newRate > 100
    THEN Threw(d)
    ELSE ToSave([d EXCEPT !.commissionRate = newRate,
                          !.lastActivityAt = t])

updateCODSettings(d, enabled, codRate) ==
    LET d1 == [d EXCEPT !.codEnabled = enabled]
    IN  IF codRate # << >>
        THEN IF codRate[1] < 0 \/ codRate[1] > 100
             THEN Threw(d1)
             ELSE ToSave([d1 EXCEPT !.codCommissionRate = codRate[1]])
        ELSE ToSave(d1)

\* updateBankDetails with the reset spread before the input
updateBankDetails_inputLast(d, bankData) ==
    ToSave([d EXCEPT !.bankDetails =
               Spread(Spread(d.bankDetails,
                             [isVerified |-> FALSE, verifiedAt |-> NoDate]),
                      bankData)])

updateBankDetails(d, bankData) ==
    ToSave([d EXCEPT !.bankDetails =
               Spread(Spread(d.bankDetails, bankData),
                      [isVerified |-> FALSE, verifiedAt |-> NoDate])])

updateAddress(d, addressData) ==
    ToSave([d EXCEPT !.address = Spread(d.address, addressData),
                     !.documentVerification.addressVerified = FALSE])

updateStatistics(d, statsUpdate, t) ==
    ToSave([d EXCEPT !.statistics = Spread(d.statistics, statsUpdate),
                     !.lastActivityAt = t])

incrementProductCount(d, count, t) ==
    ToSave([d EXCEPT !.statistics.totalProducts = @ + count,
                     !.statistics.activeProducts = @ + count,
                     !.lastActivityAt = t])

\* decrementProductCount without the clamp at zero
decrementProductCount_noClamp(d, count, t) ==
    ToSave([d EXCEPT !.statistics.totalProducts = @ - count,
                     !.statistics.activeProducts = @ - count,
                     !.lastActivityAt = t])

decrementProductCount(d, count, t) ==
    ToSave([d EXCEPT !.statistics.totalProducts = Max(0, @ - count),
                     !.statistics.activeProducts = Max(0, @ - count),
                     !.lastActivityAt = t])

recordOrder(d, amount, isCompleted, t) ==
    ToSave([d EXCEPT !.statistics.totalOrders = @ + 1,
                     !.statistics.completedOrders = IF isCompleted THEN @ + 1 ELSE @,
                     !.lastActivityAt = t])

\* averageRating and newRating are in hundredths; the mean is computed in
\* doubles and the hundredths of Math.round(newAverage * 100) are stored.
\* From a count of -1 the mean is a division by zero, and from an infinite
\* averageRating it is not finite either: Infinity or -Infinity is assigned,
\* and NaN fails the cast of a Number path, which keeps the value it had.
updateRating(d, newRating, increment, t) ==
    IF newRating < 0 \/ newRating > 500
    THEN Threw(d)
    ELSE LET averageRating == d.statistics.averageRating
             totalRatings  == d.statistics.totalRatings + 1
             finite        == Finite(averageRating) /\ totalRatings # 0
             currentTotal  == Times(Hundredths(averageRating),
                                    d.statistics.totalRatings)
             newAverage    == Over(Plus(currentTotal, Hundredths(newRating)),
                                   totalRatings)
             \* the sign of currentTotal + newRating where the quotient is
             \* not finite; 0 where that sum is 0 or NaN
             sign == IF Finite(averageRating)
                     THEN Sign(newRating - averageRating)
                     ELSE Sign(averageRating) * Sign(d.statistics.totalRatings)
             counted == [d EXCEPT !.statistics.totalRatings = totalRatings,
                                  !.lastActivityAt = t]
         IN  IF finite
             THEN ToSave([counted EXCEPT !.statistics.averageRating =
                                             MathRound(Times(newAverage, 100))])
             ELSE IF sign = 0
             THEN CastFailed(counted, {"statistics.averageRating"})
             ELSE ToSave([counted EXCEPT !.statistics.averageRating =
                                             sign * Infinity])

addEarnings(d, amount, isPending, t) ==
    IF amount < 0
    THEN Threw(d)
    ELSE ToSave([d EXCEPT !.statistics.pendingEarnings =
                                IF isPending THEN @ + amount ELSE @,
                          !.statistics.totalEarnings =
                                IF isPending THEN @ ELSE @ + amount,
                          !.lastActivityAt = t])

\* recordWithdrawal that refuses to withdraw the whole balance
recordWithdrawal_offByOne(d, amount, t) ==
    IF amount < 0
    THEN Threw(d)
    ELSE IF amount >= d.statistics.totalEarnings
         THEN Threw(d)
         ELSE ToSave([d EXCEPT !.statistics.totalEarnings = @ - amount,
                               !.statistics.withdrawnAmount = @ + amount,
                               !.lastActivityAt = t])

recordWithdrawal(d, amount, t) ==
    IF amount < 0
    THEN Threw(d)
    ELSE IF amount > d.statistics.totalEarnings
         THEN Threw(d)
         ELSE ToSave([d EXCEPT !.statistics.totalEarnings = @ - amount,
                               !.statistics.withdrawnAmount = @ + amount,
                               !.lastActivityAt = t])

fieldMap(documentType) ==
    CASE documentType = "gst"     -> "gstVerified"
      [] documentType = "pan"     -> "panVerified"
      [] documentType = "bank"    -> "bankVerified"
      [] documentType = "address" -> "addressVerified"

\* markDocumentAsVerified that marks the bank details verified for every type
markDocumentAsVerified_alwaysBank(d, documentType, t) ==
    IF documentType \notin DocumentTypes
    THEN Threw(d)
    ELSE ToSave([d EXCEPT !.documentVerification =
                              Spread(@, [k \in {fieldMap(documentType)} |-> TRUE]),
                          !.documentVerification.documentVerifiedAt = t,
                          !.bankDetails =
                              Spread(@, [isVerified |-> TRUE, verifiedAt |-> t])])

markDocumentAsVerified(d, documentType, t) ==
    IF documentType \notin DocumentTypes
    THEN Threw(d)
    ELSE LET d1 == [d EXCEPT !.documentVerification =
                        Spread(@, [k \in {fieldMap(documentType)} |-> TRUE]),
                                 !.documentVerification.documentVerifiedAt = t]
         IN  ToSave(IF documentType = "bank"
                    THEN [d1 EXCEPT !.bankDetails =
                             Spread(@, [isVerified |-> TRUE, verifiedAt |-> t])]
                    ELSE d1)

----------------------------------------------------------------------------
(* save, in turns after the call: the schema's validation, the pre('save') *)
(* hook and the sending of the paths modified so far; the write by the     *)
(* database; and, when its answer arrives, the reset of change tracking    *)

\* this.isModified(): some path differs from what was last loaded or sent,
\* or a nested path in w was assigned a new object
isModified(d, b, w) == d # b \/ w # {}

\* the pre('save') hook
preSave(d, b, w, t) ==
    IF ~isModified(d, b, w) THEN d ELSE [d EXCEPT !.lastActivityAt = t]

\* the paths with fields of their own; save writes their fields one by one
Nested == {"bankDetails", "address", "statistics", "documentVerification"}

\* the nested paths of which every key has a default: the object a document
\* holds there has every key of the schema from its construction on. Of
\* bankDetails and address a document holds the keys that were set, until a
\* method assigns the path an object, which has every key
Defaulted == {"statistics"}

\* the paths a method assigns a Number that casts, making good an earlier
\* assignment that did not
Recast(op) ==
    IF op \in {"updateStatistics", "updateRating"}
    THEN {"statistics.averageRating"}
    ELSE {}

\* the nested path a method assigns an object to, as this.statistics =
\* { ...this.statistics, ...statsUpdate } does; the other methods assign to
\* single fields
Assigned(op) ==
    CASE op = "updateBankDetails" -> {"bankDetails"}
      [] op = "updateAddress"     -> {"address"}
      [] op = "updateStatistics"  -> {"statistics"}
      [] OTHER                    -> {}

\* what the update sent for d leaves in the store, b being the document as
\* the caller loaded or last sent it and w its nested paths that were
\* assigned as objects: a nested path in w is stored as the whole object, of
\* any other nested path the fields that differ from b are stored one by
\* one, and so are the other paths that differ; every other path keeps its
\* stored value. Where nothing was stored since the caller loaded, that is
\* the caller's document.
Written(stored, d, b, w) ==
    IF stored = b THEN d
    ELSE [f \in DOMAIN d |->
            IF f \in w THEN d[f]
            ELSE IF d[f] = b[f] THEN stored[f]
            ELSE IF f \notin Nested THEN d[f]
            ELSE LET dirty == {k \in DOMAIN d[f] :
                                 k \notin DOMAIN b[f] \/ d[f][k] # b[f][k]}
                 IN  [k \in DOMAIN stored[f] \cup dirty |->
                         IF k \in dirty THEN d[f][k] ELSE stored[f][k]]]

\* the document a handler's calls run on
Inst(c) == IF c = "c1b" THEN "c1" ELSE c

This(c) == doc[Inst(c)]

NoSave == [op |-> "none", c |-> "none", phase |-> "none"]

\* the handler awaits the promise of its own call: it does nothing else
\* until the save of that call has settled
Idle(c) == saving[Inst(c)] = NoSave \/ saving[Inst(c)].c # c

\* validation and the pre('save') hook, run at time t on the document d as
\* it is in memory then, b being d as last loaded or sent, w its nested
\* paths assigned as objects and e its paths with a failed cast, which fail
\* validation until they are assigned a value that casts
Sent(d, b, w, e, t) ==
    IF ~SchemaValid(d) \/ e # {}
    THEN [result |-> "ValidationError", doc |-> d]
    ELSE [result |-> "sent", doc |-> preSave(d, b, w, t)]

\* a database that refuses an update of a stored document that changed
\* since the caller loaded it
Outcome_versionChecked(stored, d, b, w) ==
    IF stored # b
    THEN [db |-> stored, result |-> "VersionError"]
    ELSE [db |-> d, result |-> "ok"]

\* what the database makes of the update sent for d, the document as it
\* was when the update was built, b, as it was last loaded or sent, and w,
\* its nested paths assigned as objects: the stored document and the answer
Outcome(stored, d, b, w) == [db |-> Written(stored, d, b, w), result |-> "ok"]

\* the sums of what the callers were told was done: the product counts
\* added by incrementProductCount, the amounts credited to totalEarnings by
\* addEarnings and the amounts withdrawn by recordWithdrawal, each over the
\* calls that returned without an error
Booked(l, info, result) ==
    IF result # "ok" THEN l
    ELSE CASE info.op = "incrementProductCount" ->
                [l EXCEPT !.added = @ + info.count]
           [] info.op = "addEarnings" /\ ~info.isPending ->
                [l EXCEPT !.credited = @ + info.amount]
           [] info.op = "recordWithdrawal" ->
                [l EXCEPT !.withdrawn = @ + info.amount]
           [] OTHER -> l

\* a method called by handler c, up to its await: r is what the body of the
\* method made of the document, in the same turn. A nested path assigned an
\* object is marked as a whole, unless the object equals the one it held,
\* key by key: the assigned object has every key of the schema, so it
\* differs from a held one that has not. A body
\* that threw rejects at once; so does save() when an earlier save of the
\* same document has not settled (mongoose's ParallelSaveError). Otherwise
\* the save is under way and goes on in later turns: Send, Write and Settle.
Call(c, info, r) ==
    /\ Idle(c)
    /\ budget # <<0>>
    /\ budget' = IF budget = << >> THEN budget ELSE <<budget[1] - 1>>
    /\ doc' = [doc EXCEPT ![Inst(c)] = r.doc]
    /\ whole' = [whole EXCEPT ![Inst(c)] =
                    @ \cup {f \in Assigned(info.op) :
                               f \notin full[Inst(c)] \/ r.doc[f] # This(c)[f]}]
    /\ full' = [full EXCEPT ![Inst(c)] = @ \cup Assigned(info.op)]
    /\ invalid' = [invalid EXCEPT ![Inst(c)] =
                      IF r.threw THEN @ ELSE (@ \ Recast(info.op)) \cup r.failed]
    /\ pre' = This(c)
    /\ IF r.threw \/ saving[Inst(c)] # NoSave
       THEN /\ call' = [op |-> info.op, c |-> c, args |-> info,
                        result |-> IF r.threw THEN "Error" ELSE "ParallelSaveError",
                        at |-> now, done |-> now]
            /\ UNCHANGED saving
       ELSE /\ call' = [op |-> "call", c |-> c, args |-> info, result |-> "pending",
                        at |-> now, done |-> now]
            /\ saving' = [saving EXCEPT ![Inst(c)] =
                             [op |-> info.op, c |-> c, args |-> info,
                              pre |-> This(c), at |-> now, phase |-> "started"]]
    /\ UNCHANGED <<db, base, now, ledger>>

\* the save of handler c's call gets its first turn: validation and the
\* pre('save') hook on the document as it is in memory now. A document that
\* fails validation rejects the call and stays as it is, marked modified.
\* For any other the update of the paths modified so far is built and sent,
\* the change tracking of the document is reset, and the save waits for
\* the database.
Send(c) ==
    /\ saving[Inst(c)].c = c
    /\ saving[Inst(c)].phase = "started"
    /\ LET i == Inst(c)
           s == saving[i]
           o == Sent(doc[i], base[i], whole[i], invalid[i], now)
       IN  /\ doc' = [doc EXCEPT ![i] = o.doc]
           /\ IF o.result = "ValidationError"
              THEN /\ pre' = s.pre
                   /\ call' = [op |-> s.op, c |-> c, args |-> s.args,
                               result |-> o.result, at |-> s.at, done |-> now]
                   /\ saving' = [saving EXCEPT ![i] = NoSave]
                   /\ UNCHANGED <<base, whole>>
              ELSE /\ saving' = [saving EXCEPT ![i] =
                                    [op |-> s.op, c |-> c, args |-> s.args,
                                     pre |-> s.pre, at |-> s.at, phase |-> "sent",
                                     d |-> o.doc, b |-> base[i], w |-> whole[i]]]
                   /\ base' = [base EXCEPT ![i] = o.doc]
                   /\ whole' = [whole EXCEPT ![i] = {}]
                   /\ UNCHANGED <<pre, call>>
           /\ UNCHANGED <<db, full, invalid, now, ledger, budget>>

\* the database applies the update sent for handler c's call
Write(c) ==
    /\ saving[Inst(c)].c = c
    /\ saving[Inst(c)].phase = "sent"
    /\ LET i == Inst(c)
           s == saving[i]
           o == Outcome(db, s.d, s.b, s.w)
       IN  /\ db' = o.db
           /\ saving' = [saving EXCEPT ![i] =
                            [op |-> s.op, c |-> c, args |-> s.args,
                             pre |-> s.pre, at |-> s.at, phase |-> "written",
                             result |-> o.result, stored |-> o.db,
                             b |-> s.b, w |-> s.w]]
           /\ UNCHANGED <<doc, base, whole, full, invalid, now, pre, call, ledger, budget>>

\* the answer of the database arrives and the promise of handler c's call
\* settles; an update the database refused leaves the document marked as it
\* was before it was sent. call.stored is the stored document as the write
\* of this call left it.
Settle(c) ==
    /\ saving[Inst(c)].c = c
    /\ saving[Inst(c)].phase = "written"
    /\ LET i == Inst(c)
           s == saving[i]
       IN  /\ base' = [base EXCEPT ![i] = IF s.result = "ok" THEN @ ELSE s.b]
           /\ whole' = [whole EXCEPT ![i] = IF s.result = "ok" THEN @ ELSE @ \cup s.w]
           /\ pre' = s.pre
           /\ call' = [op |-> s.op, c |-> c, args |-> s.args, result |-> s.result,
                       at |-> s.at, done |-> now, stored |-> s.stored]
           /\ ledger' = Booked(ledger, s.args, s.result)
           /\ saving' = [saving EXCEPT ![i] = NoSave]
           /\ UNCHANGED <<db, doc, full, invalid, now, budget>>

----------------------------------------------------------------------------
(* The state after construction: one seller created and stored, held in    *)
(* memory by every caller, no call made yet                                *)

NoCall == [op |-> "none", c |-> "c1", args |-> [op |-> "none"], result |-> "ok",
           at |-> T0, done |-> T0]

NoneBooked == [added |-> 0, credited |-> 0, withdrawn |-> 0]

\* the stored document d, held by every caller, with k the calls explored
Stored(d, k) ==
    /\ budget = k
    /\ db = d
    /\ doc = [c \in Callers |-> d]
    /\ base = [c \in Callers |-> d]
    /\ whole = [c \in Callers |-> {}]
    /\ full = [c \in Callers |-> Defaulted]
    /\ invalid = [c \in Callers |-> {}]
    /\ saving = [c \in Callers |-> NoSave]
    /\ now = T0
    /\ pre = d
    /\ call = NoCall
    /\ ledger = NoneBooked

InitWith(d) == Stored(d, << >>)

Init == \E bt \in BusinessTypes : InitWith(Created(NewSeller(bt), T0))

\* the same, for behaviours of at most MaxCalls calls
InitCalls == \E bt \in BusinessTypes : Stored(Created(NewSeller(bt), T0), <<MaxCalls>>)

----------------------------------------------------------------------------
(* Steps: the clock, a load of the stored document, and a call of each     *)
(* method with arguments drawn from the argument sets above                *)

Tick ==
    /\ now < T0 + MaxTicks
    /\ now' = now + 1
    /\ UNCHANGED <<db, doc, base, whole, full, invalid, saving, pre, call, ledger, budget>>

\* days pass with no call made: nothing in the program runs on a timer
Elapse(days) ==
    /\ now + days <= T0 + MaxTicks + SuspendDays
    /\ now' = now + days
    /\ UNCHANGED <<db, doc, base, whole, full, invalid, saving, pre, call, ledger, budget>>

\* Seller.findOne / findById: a fresh in-memory copy of the stored document
Load(c) ==
    /\ saving[c] = NoSave
    /\ doc' = [doc EXCEPT ![c] = db]
    /\ base' = [base EXCEPT ![c] = db]
    /\ pre' = doc[c]
    /\ call' = [op |-> "load", c |-> c, args |-> [op |-> "load"], result |-> "ok",
                at |-> now, done |-> now]
    /\ whole' = [whole EXCEPT ![c] = {}]
    /\ full' = [full EXCEPT ![c] = Defaulted]
    /\ invalid' = [invalid EXCEPT ![c] = {}]
    /\ UNCHANGED <<db, saving, now, ledger, budget>>

ApproveOf(c, bys, reasons) ==
    \E by \in bys, reason \in reasons :
        Call(c, [op |-> "approve", by |-> by, reason |-> reason],
               approve(This(c), by, reason, now))

Approve(c) == ApproveOf(c, Admins, ReasonArgs)

BlockOf(c, bys, reasons) ==
    \E by \in bys, reason \in reasons :
        Call(c, [op |-> "block", by |-> by, reason |-> reason],
               block(This(c), by, reason, now))

Block(c) == BlockOf(c, Admins, ReasonArgs)

SuspendOf(c, bys, dayss, reasons) ==
    \E by \in bys, days \in dayss, reason \in reasons :
        Call(c, [op |-> "suspend", by |-> by, days |-> days, reason |-> reason],
               suspend(This(c), by, days, reason, now))

Suspend(c) == SuspendOf(c, Admins, DaysArgs, ReasonArgs)

UnsuspendOf(c, bys) ==
    \E by \in bys :
        Call(c, [op |-> "unsuspend", by |-> by],
               unsuspend(This(c), by, now))

Unsuspend(c) == UnsuspendOf(c, Admins)

UpdateCommissionRateOf(c, rates, bys) ==
    \E newRate \in rates, by \in bys :
        Call(c, [op |-> "updateCommissionRate", newRate |-> newRate, by |-> by],
               updateCommissionRate(This(c), newRate, by, now))

UpdateCommissionRate(c) == UpdateCommissionRateOf(c, RateArgs, Admins)

UpdateCODSettingsOf(c, enableds, codRates) ==
    \E enabled \in enableds, codRate \in codRates :
        Call(c, [op |-> "updateCODSettings", enabled |-> enabled, codRate |-> codRate],
               updateCODSettings(This(c), enabled, codRate))

UpdateCODSettings(c) == UpdateCODSettingsOf(c, BOOLEAN, CodRateArgs)

UpdateBankDetailsOf(c, bankDatas) ==
    \E bankData \in bankDatas :
        Call(c, [op |-> "updateBankDetails", bankData |-> bankData],
               updateBankDetails(This(c), bankData))

UpdateBankDetails(c) == UpdateBankDetailsOf(c, BankDataArgs)

UpdateAddressOf(c, addressDatas) ==
    \E addressData \in addressDatas :
        Call(c, [op |-> "updateAddress", addressData |-> addressData],
               updateAddress(This(c), addressData))

UpdateAddress(c) == UpdateAddressOf(c, AddressDataArgs)

UpdateStatisticsOf(c, updates) ==
    \E statsUpdate \in updates :
        Call(c, [op |-> "updateStatistics", statsUpdate |-> statsUpdate],
               updateStatistics(This(c), statsUpdate, now))

UpdateStatistics(c) == UpdateStatisticsOf(c, StatsUpdateArgs)

IncrementProductCountOf(c, counts) ==
    \E count \in counts :
        /\ This(c).statistics.totalProducts + count \in -1 .. MaxCount
        /\ This(c).statistics.activeProducts + count \in -1 .. MaxCount
        /\ ledger.added + count \in -MaxCount .. MaxCount
        /\ Call(c, [op |-> "incrementProductCount", count |-> count],
                  incrementProductCount(This(c), count, now))

IncrementProductCount(c) == IncrementProductCountOf(c, CountArgs)

DecrementProductCountOf(c, counts) ==
    \E count \in counts :
        Call(c, [op |-> "decrementProductCount", count |-> count],
               decrementProductCount(This(c), count, now))

DecrementProductCount(c) == DecrementProductCountOf(c, 0 .. MaxCount + 1)

RecordOrderOf(c, amounts, completeds) ==
    \E amount \in amounts, isCompleted \in completeds :
        /\ This(c).statistics.totalOrders < MaxOrders
        /\ Call(c, [op |-> "recordOrder", amount |-> amount, isCompleted |-> isCompleted],
                recordOrder(This(c), amount, isCompleted, now))

RecordOrder(c) == RecordOrderOf(c, AmountArgs, BOOLEAN)

UpdateRatingOf(c, ratings, increments) ==
    \E newRating \in ratings, increment \in increments :
        /\ This(c).statistics.totalRatings < MaxRatings
        /\ Call(c, [op |-> "updateRating", newRating |-> newRating, increment |-> increment],
                  updateRating(This(c), newRating, increment, now))

UpdateRating(c) == UpdateRatingOf(c, RatingArgs, BOOLEAN)

AddEarningsOf(c, amounts, pendings) ==
    \E amount \in amounts, isPending \in pendings :
        /\ This(c).statistics.totalEarnings + This(c).statistics.pendingEarnings
              + This(c).statistics.withdrawnAmount + amount <= MaxEarnings
        /\ ledger.credited + amount <= MaxEarnings
        /\ Call(c, [op |-> "addEarnings", amount |-> amount, isPending |-> isPending],
                  addEarnings(This(c), amount, isPending, now))

AddEarnings(c) == AddEarningsOf(c, AmountArgs, BOOLEAN)

RecordWithdrawalOf(c, amounts) ==
    \E amount \in amounts :
        /\ ledger.withdrawn + amount <= 2 * MaxEarnings
        /\ Call(c, [op |-> "recordWithdrawal", amount |-> amount],
                  recordWithdrawal(This(c), amount, now))

RecordWithdrawal(c) == RecordWithdrawalOf(c, AmountArgs)

MarkDocumentAsVerified(c) ==
    \E documentType \in DocumentTypeArgs :
        Call(c, [op |-> "markDocumentAsVerified", documentType |-> documentType],
               markDocumentAsVerified(This(c), documentType, now))

\* a read of the derived flags: the document is left as it is
GetEligibility(c) ==
    /\ Idle(c)
    /\ call' = [op |-> "getEligibility", c |-> c, args |-> [op |-> "getEligibility"],
                result |-> "ok", at |-> now, done |-> now,
                ret |-> getEligibility(This(c))]
    /\ pre' = This(c)
    /\ UNCHANGED <<db, doc, base, whole, full, invalid, saving, now, ledger, budget>>

----------------------------------------------------------------------------
(* Specifications: each explores the methods that touch one part of the    *)
(* document, for one caller or, where callers interleave, for two          *)

\* the status lifecycle
NextLifecycle ==
    \/ Tick
    \/ Send("c1")
    \/ Write("c1")
    \/ Settle("c1")
    \/ Approve("c1")
    \/ Block("c1")
    \/ SuspendOf("c1", Admins, {SuspendDays}, ReasonArgs)
    \/ Unsuspend("c1")

SpecLifecycle == Init /\ [][NextLifecycle]_vars

\* a suspension and the clock: the deadline passes, or is in the past from
\* the start, and the flags are read before and after
NextSuspension ==
    \/ Tick
    \/ Send("c1")
    \/ Write("c1")
    \/ Settle("c1")
    \/ Elapse(SuspendDays)
    \/ ApproveOf("c1", {"admin1"}, {Undefined})
    \/ BlockOf("c1", {"admin1"}, {"policy"})
    \/ SuspendOf("c1", {"admin1"}, {-1, 0, SuspendDays}, {"policy"})
    \/ UnsuspendOf("c1", {"admin1"})
    \/ GetEligibility("c1")

SpecSuspension == Init /\ [][NextSuspension]_vars

\* the verification of documents, and the updates that reset it
NextDocuments ==
    \/ Tick
    \/ Send("c1")
    \/ Write("c1")
    \/ Settle("c1")
    \/ MarkDocumentAsVerified("c1")
    \/ UpdateBankDetailsOf("c1", {[accountNumber |-> "123456789"], [isVerified |-> TRUE]})
    \/ UpdateAddressOf("c1", {[city |-> "Pune"]})

SpecDocuments == Init /\ [][NextDocuments]_vars

\* the commission and cash-on-delivery terms
NextCommerce ==
    \/ Tick
    \/ Send("c1")
    \/ Write("c1")
    \/ Settle("c1")
    \/ Load("c1")
    \/ UpdateCommissionRate("c1")
    \/ UpdateCODSettings("c1")

SpecCommerce == Init /\ [][NextCommerce]_vars

\* orders, earnings and withdrawals
NextEarnings ==
    \/ Tick
    \/ Send("c1")
    \/ Write("c1")
    \/ Settle("c1")
    \/ RecordOrderOf("c1", {MaxAmount}, BOOLEAN)
    \/ AddEarnings("c1")
    \/ RecordWithdrawal("c1")

SpecEarnings == Init /\ [][NextEarnings]_vars

\* ratings
NextRating ==
    \/ Tick
    \/ Send("c1")
    \/ Write("c1")
    \/ Settle("c1")
    \/ UpdateRating("c1")

SpecRating == Init /\ [][NextRating]_vars

\* product counters
NextProducts ==
    \/ Send("c1")
    \/ Write("c1")
    \/ Settle("c1")
    \/ UpdateStatistics("c1")
    \/ IncrementProductCount("c1")
    \/ DecrementProductCount("c1")

SpecProducts == Init /\ [][NextProducts]_vars

\* bank details, their verification and the payout flag
NextBank ==
    \/ Send("c1")
    \/ Write("c1")
    \/ Settle("c1")
    \/ ApproveOf("c1", {"admin1"}, {Undefined})
    \/ AddEarningsOf("c1", {MaxAmount}, {FALSE})
    \/ UpdateBankDetails("c1")
    \/ MarkDocumentAsVerified("c1")
    \/ GetEligibility("c1")

SpecBank == Init /\ [][NextBank]_vars

\* the numeric ranges: every method of the document, with arguments inside
\* and outside the ranges where it takes a number, and a reload of the
\* stored document, in behaviours of at most MaxCalls calls
NextRanges ==
    \/ Load("c1")
    \/ Send("c1")
    \/ Write("c1")
    \/ Settle("c1")
    \/ ApproveOf("c1", {"admin1"}, {Undefined})
    \/ BlockOf("c1", {"admin1"}, {"policy"})
    \/ SuspendOf("c1", {"admin1"}, {SuspendDays}, {"policy"})
    \/ UnsuspendOf("c1", {"admin1"})
    \/ UpdateCommissionRateOf("c1", {-1, 100, 101}, {"admin1"})
    \/ UpdateCODSettingsOf("c1", {TRUE}, {<<-1>>, <<100>>, <<101>>})
    \/ UpdateBankDetailsOf("c1", {[accountNumber |-> "123456789"]})
    \/ UpdateAddressOf("c1", {[city |-> "Pune"]})
    \/ UpdateStatisticsOf("c1", AnyStatsArgs)
    \/ IncrementProductCountOf("c1", {-1, 1})
    \/ DecrementProductCountOf("c1", {-1, 1})
    \/ RecordOrderOf("c1", {-1}, {TRUE})
    \/ UpdateRatingOf("c1", {-1, 500, 501}, {TRUE})
    \/ AddEarningsOf("c1", {-1, MaxAmount}, BOOLEAN)
    \/ RecordWithdrawalOf("c1", {-1, MaxAmount, MaxAmount + 1})
    \/ MarkDocumentAsVerified("c1")

SpecRanges == InitCalls /\ [][NextRanges]_vars

\* two callers at work on the same account: each reloads the stored document
\* when it likes, and counts a product or credits an earning on its own copy
NextConcurrent ==
    \E c \in Callers :
        \/ Load(c)
        \/ Send(c)
        \/ Write(c)
        \/ Settle(c)
        \/ IncrementProductCountOf(c, {1})
        \/ AddEarningsOf(c, {1}, {FALSE})

SpecConcurrent == Init /\ [][NextConcurrent]_vars

\* two callers crediting earnings and recording withdrawals of the same
\* account, each on its own copy
NextWithdrawals ==
    \E c \in Callers :
        \/ Load(c)
        \/ Send(c)
        \/ Write(c)
        \/ Settle(c)
        \/ AddEarningsOf(c, {MaxAmount}, {FALSE})
        \/ RecordWithdrawalOf(c, {1, MaxAmount})

SpecWithdrawals == Init /\ [][NextWithdrawals]_vars

\* two handlers at work on one document in memory: a method is called on
\* it while the save of an earlier call has not settled
NextShared ==
    \E c \in {"c1"} \cup Sharers :
        \/ Send(c)
        \/ Write(c)
        \/ Settle(c)
        \/ IncrementProductCountOf(c, {1})
        \/ AddEarningsOf(c, {1}, {FALSE})

SpecShared == Init /\ [][NextShared]_vars

\* the derived flags over every stored document of the cross-product of
\* status, isActive, bankVerified, totalEarnings, codEnabled and businessType
StoredSellers ==
    { [Created(NewSeller(bt), T0) EXCEPT !.status = st,
                            !.isActive = act,
                            !.documentVerification.bankVerified = bv,
                            !.statistics.totalEarnings = te,
                            !.codEnabled = cod] :
        bt \in BusinessTypes, st \in Statuses, act \in BOOLEAN, bv \in BOOLEAN,
        te \in 0 .. MaxAmount, cod \in BOOLEAN }

InitStored == \E d \in StoredSellers : InitWith(d)

NextEligibility == GetEligibility("c1")

SpecEligibility == InitStored /\ [][NextEligibility]_vars

----------------------------------------------------------------------------
(* Properties.  In each, the last call is `call`, made by call.c at time    *)
(* call.at on the document `pre` and settled at time call.done, and cur is *)
(* that caller's document after it.  A call whose save has not settled has *)
(* call.op = "call" and the name of its method in call.args.op.            *)

cur == doc[Inst(call.c)]

\* C1: getEligibility().canWithdrawEarnings is true exactly when the status
\* is approved, isActive and documentVerification.bankVerified are set and
\* statistics.totalEarnings is above zero, over the whole cross-product of
\* these fields; and getEligibility leaves every field of the document alone.
C1_CanWithdrawIff ==
    call.op = "getEligibility" =>
        /\ call.ret.canWithdrawEarnings =
              ~ \/ pre.status \in {"pending", "blocked", "suspended"}
                \/ ~pre.isActive
                \/ ~pre.documentVerification.bankVerified
                \/ pre.statistics.totalEarnings < 1
        /\ cur = pre
        /\ db = pre

C1_Witness ==
    /\ call.op = "getEligibility"
    /\ call.ret.canWithdrawEarnings
    /\ pre.statistics.totalEarnings = 1

\* C2: recordWithdrawal(amount) throws when amount < 0 or amount exceeds
\* statistics.totalEarnings, leaving totalEarnings and withdrawnAmount as they
\* were; for every other amount it succeeds, takes exactly amount off
\* totalEarnings and adds exactly amount to withdrawnAmount, so their sum is
\* kept and totalEarnings stays at or above zero.
C2_RecordWithdrawal ==
    call.op = "recordWithdrawal" =>
        LET amount == call.args.amount
            e == pre.statistics.totalEarnings
            w == pre.statistics.withdrawnAmount
            s == cur.statistics
        IN  IF amount < 0 \/ amount > e
            THEN /\ call.result = "Error"
                 /\ s.totalEarnings = e
                 /\ s.withdrawnAmount = w
            ELSE /\ call.result = "ok"
                 /\ s.totalEarnings = e - amount
                 /\ s.withdrawnAmount = w + amount
                 /\ s.totalEarnings + s.withdrawnAmount = e + w
                 /\ s.totalEarnings >= 0
                 /\ db.statistics = s

C2_Witness ==
    /\ call.op = "recordWithdrawal"
    /\ call.result = "ok"
    /\ call.args.amount > 0
    /\ call.args.amount = pre.statistics.totalEarnings
    /\ pre.statistics.withdrawnAmount > 0

\* C3: updateCommissionRate(r, actor) succeeds exactly when 0 <= r <= 100; on
\* success commissionRate is r, on failure it is what it was; so
\* commissionRate is within [0,100] after any sequence of such calls.
C3_UpdateCommissionRate ==
    /\ \A c \in Callers : doc[c].commissionRate \in 0 .. 100
    /\ db.commissionRate \in 0 .. 100
    /\ call.op = "updateCommissionRate" =>
          LET r == call.args.newRate
          IN  /\ (call.result = "ok") = (r \in 0 .. 100)
              /\ call.result = "ok" => cur.commissionRate = r /\ db.commissionRate = r
              /\ call.result # "ok" => call.result = "Error" /\ cur.commissionRate = pre.commissionRate

C3_Witness ==
    /\ call.op = "updateCommissionRate"
    /\ call.result = "ok"
    /\ call.args.newRate = 100
    /\ pre.commissionRate = 0
    /\ cur.commissionRate = 100

\* C4: block(actor, reason) with an empty, null or undefined reason throws
\* from any status and leaves status, isActive, statusReason, statusChangedAt
\* and statusChangedBy as they were; with a non-empty reason it succeeds from
\* any status and leaves status = blocked, isActive = false, statusReason =
\* reason and statusChangedBy = actor.
C4_Block ==
    call.op = "block" =>
        IF call.args.reason \in {"", Null, Undefined}
        THEN /\ call.result = "Error"
             /\ cur.status = pre.status
             /\ cur.isActive = pre.isActive
             /\ cur.statusReason = pre.statusReason
             /\ cur.statusChangedAt = pre.statusChangedAt
             /\ cur.statusChangedBy = pre.statusChangedBy
        ELSE /\ call.result = "ok"
             /\ cur.status = "blocked"
             /\ cur.isActive = FALSE
             /\ cur.statusReason = call.args.reason
             /\ cur.statusChangedBy = call.args.by

C4_Witness ==
    /\ call.op = "block"
    /\ call.args.reason = Null
    /\ call.result = "Error"
    /\ pre.status = "suspended"
    /\ pre.isActive
    /\ cur.status = "suspended"

\* C5: every method that throws on an invalid argument throws before it
\* changes anything: after a call that threw, every field of the in-memory
\* document is what it was before the call; in particular
\* updateCODSettings(enabled, rate) with rate outside [0,100] leaves codEnabled
\* and codCommissionRate as they were.
C5_ThrowsBeforeMutation ==
    call.result = "Error" => cur = pre

\* C6: after unsuspend(actor), from any state and in particular after
\* approve, suspend(7, reason), unsuspend, the document has status = approved,
\* suspendedUntil = null and isActive = true.
C6_Unsuspend ==
    call.op = "unsuspend" =>
        /\ call.result = "ok"
        /\ cur.status = "approved"
        /\ cur.suspendedUntil = NoDate
        /\ cur.isActive = TRUE
        /\ db = cur

\* the last step of approve, suspend(7, "policy"), unsuspend
C6_Witness ==
    /\ call.op = "unsuspend"
    /\ pre.status = "suspended"
    /\ pre.approvedAt # NoDate
    /\ pre.statusReason = "policy"
    /\ pre.suspendedUntil = pre.statusChangedAt + SuspendDays
    /\ cur.status = "approved"

\* C7: a successful updateBankDetails that changes a field of the bank
\* details invalidates the bank verification: it leaves documentVerification.bankVerified false as well as
\* bankDetails.isVerified, and so getEligibility().canWithdrawEarnings false.
C7_BankUpdateInvalidates ==
    (/\ call.op = "updateBankDetails"
     /\ call.result = "ok"
     /\ \E k \in (DOMAIN call.args.bankData) \ {"isVerified", "verifiedAt"} :
            k \notin DOMAIN pre.bankDetails \/ pre.bankDetails[k] # call.args.bankData[k]) =>
        /\ ~cur.bankDetails.isVerified
        /\ ~cur.documentVerification.bankVerified
        /\ ~getEligibility(cur).canWithdrawEarnings

\* C8: updateBankDetails(partial) leaves bankDetails.isVerified = false and
\* bankDetails.verifiedAt = null for every prior state and every input, also
\* one that supplies isVerified = true or a verifiedAt; the named fields take
\* the input's values and the other fields of the sub-record keep theirs.
C8_UpdateBankDetails ==
    call.op = "updateBankDetails" =>
        LET in == call.args.bankData
            forced == {"isVerified", "verifiedAt"}
        IN  /\ call.result = "ok"
            /\ cur.bankDetails.isVerified = FALSE
            /\ cur.bankDetails.verifiedAt = NoDate
            /\ DOMAIN cur.bankDetails = (DOMAIN pre.bankDetails) \cup (DOMAIN in)
            /\ \A k \in (DOMAIN in) \ forced : cur.bankDetails[k] = in[k]
            /\ \A k \in (DOMAIN pre.bankDetails) \ ((DOMAIN in) \cup forced) :
                  cur.bankDetails[k] = pre.bankDetails[k]
            /\ db.bankDetails = cur.bankDetails

C8_Witness ==
    /\ call.op = "updateBankDetails"
    /\ "isVerified" \in DOMAIN call.args.bankData
    /\ call.args.bankData.isVerified
    /\ "accountNumber" \notin DOMAIN call.args.bankData
    /\ "accountNumber" \in DOMAIN pre.bankDetails
    /\ pre.bankDetails.isVerified
    /\ pre.bankDetails.verifiedAt # NoDate

\* C9: updateRating(r, increment) throws, changing nothing, when r is outside
\* [0,5]; otherwise, whatever increment is, it adds one to totalRatings and
\* sets averageRating to (averageRating * totalRatings + r) / (totalRatings + 1)
\* rounded to the nearest hundredth, halves up.  From {0, 0}, updateRating(4)
\* gives {4.00, 1} and then updateRating(5) gives {4.50, 2}; averageRating
\* stays within [0,5] and totalRatings counts the successful calls.
C9_UpdateRating ==
    /\ cur.statistics.averageRating \in 0 .. 500
    /\ call.op = "updateRating" =>
          LET r == call.args.newRating
              a == pre.statistics.averageRating
              n == pre.statistics.totalRatings
              a2 == cur.statistics.averageRating
              n2 == cur.statistics.totalRatings
          IN  IF r < 0 \/ r > 500
              THEN call.result = "Error" /\ cur = pre
              ELSE /\ call.result = "ok"
                   /\ n2 = n + 1
                   \* a2 - 1/2 <= (a * n + r) / (n + 1) < a2 + 1/2
                   /\ (2 * a2 - 1) * (n + 1) <= 2 * (a * n + r)
                   /\ 2 * (a * n + r) < (2 * a2 + 1) * (n + 1)
                   /\ (a = 0 /\ n = 0 /\ r = 400) => (a2 = 400 /\ n2 = 1)
                   /\ (a = 400 /\ n = 1 /\ r = 500) => (a2 = 450 /\ n2 = 2)
    /\ call.op = "none" => cur.statistics.totalRatings = 0

\* C10: for all non-negative totalProducts and activeProducts and all n >= 0,
\* decrementProductCount(n) sets each counter to max(0, counter - n); neither
\* is below zero afterwards, also when n exceeds the counter.
C10_DecrementProductCount ==
    (/\ call.op = "decrementProductCount"
     /\ call.args.count >= 0
     /\ pre.statistics.totalProducts >= 0
     /\ pre.statistics.activeProducts >= 0) =>
        LET n == call.args.count
            Clamped(v) == IF v > n THEN v - n ELSE 0
        IN  /\ call.result = "ok"
            /\ cur.statistics.totalProducts = Clamped(pre.statistics.totalProducts)
            /\ cur.statistics.activeProducts = Clamped(pre.statistics.activeProducts)
            /\ cur.statistics.totalProducts >= 0
            /\ cur.statistics.activeProducts >= 0

C10_Witness ==
    /\ call.op = "decrementProductCount"
    /\ call.args.count > pre.statistics.activeProducts
    /\ call.args.count < pre.statistics.totalProducts
    /\ cur.statistics.activeProducts = 0
    /\ cur.statistics.totalProducts > 0

\* C11: approve(actor, reason) always succeeds, from every status and either
\* value of isActive, and leaves status = approved, isActive = true, approvedAt
\* and statusChangedAt at the time of the call, statusChangedBy = actor and
\* statusReason = reason, or the standard message when reason is empty or
\* omitted (null is treated as empty).
C11_Approve ==
    call.op = "approve" =>
        /\ call.result = "ok"
        /\ cur.status = "approved"
        /\ cur.isActive = TRUE
        /\ cur.approvedAt = call.at
        /\ cur.statusChangedAt = call.at
        /\ cur.statusChangedBy = call.args.by
        /\ cur.statusReason =
              IF call.args.reason \in Reasons
              THEN call.args.reason
              ELSE "Seller approved by admin"
        /\ db = cur

\* a blocked, inactive seller approved again with no reason given
C11_Witness ==
    /\ call.op = "approve"
    /\ call.args.reason = Undefined
    /\ pre.status = "blocked"
    /\ pre.isActive = FALSE
    /\ pre.statusChangedAt < call.at
    /\ cur.isActive
    /\ cur.statusReason = "Seller approved by admin"

\* C12: canListProducts, canAcceptOrders, canUseCOD and canAcceptDropship are
\* all false whenever status is not approved, whatever isActive, codEnabled
\* and businessType are.
C12_FlagsNeedApproved ==
    /\ \A c \in Callers :
          doc[c].status # "approved" =>
              LET e == getEligibility(doc[c])
              IN  ~e.canListProducts /\ ~e.canAcceptOrders
                  /\ ~e.canUseCOD /\ ~e.canAcceptDropship
    /\ (call.op = "getEligibility" /\ pre.status \in {"pending", "blocked", "suspended"}) =>
          /\ call.ret.canListProducts = FALSE
          /\ call.ret.canAcceptOrders = FALSE
          /\ call.ret.canUseCOD = FALSE
          /\ call.ret.canAcceptDropship = FALSE

C12_Witness ==
    /\ call.op = "getEligibility"
    /\ pre.status = "suspended"
    /\ pre.isActive
    /\ pre.codEnabled
    /\ pre.businessType = "dropship"
    /\ ~call.ret.canUseCOD
    /\ ~call.ret.canAcceptDropship

\* the ranges of section 3: both rates within [0,100], averageRating within
\* [0,5] and the nine statistics counters at or above zero
InRanges(d) ==
    /\ d.commissionRate \in 0 .. 100
    /\ d.codCommissionRate \in 0 .. 100
    /\ d.statistics.averageRating \in 0 .. 500
    /\ \A k \in {"totalProducts", "activeProducts", "totalOrders", "completedOrders",
                 "cancelledOrders", "totalEarnings", "pendingEarnings",
                 "withdrawnAmount", "totalRatings"} : d.statistics[k] >= 0

\* C13 as stated: in every state reachable from a fresh account by the methods
\* with any arguments, the account (the instance the methods act on as well as
\* the stored document) keeps both rates within [0,100], averageRating within
\* [0,5] and every statistics counter at or above zero.
C13_RangesEverywhere ==
    /\ InRanges(db)
    /\ \A c \in Callers : InRanges(doc[c])

\* C13 as amended: the stored document keeps the ranges in every reachable
\* state, and so does every in-memory document with no unsaved change. An
\* in-memory document within the ranges leaves them only in a call of
\* updateStatistics or incrementProductCount, which assign without a check;
\* updateRating on a document within the ranges leaves it within them, and
\* only from a document outside them does it assign an infinite
\* averageRating or one the path refuses. The save of a document outside
\* the ranges, or with a refused value, is rejected with a validation
\* error, in that call and in every later one while the document is so, and
\* writes nothing; a reload gives the stored document. A method that throws
\* on its argument leaves both rates and the statistics as they were.
C13_StoredRanges ==
    /\ InRanges(db)
    /\ \A c \in Callers : (base[c] = doc[c] /\ whole[c] = {}) => InRanges(doc[c])
    /\ (InRanges(pre) /\ ~InRanges(cur)) =>
          call.args.op \in {"updateStatistics", "incrementProductCount"}
    /\ (call.args.op = "updateRating" /\ InRanges(pre)) =>
          /\ InRanges(cur)
          /\ call.result # "Error" => invalid[Inst(call.c)] = {}
    /\ (call.op \notin {"none", "load", "call"}
          /\ (~InRanges(cur) \/ invalid[Inst(call.c)] # {})) =>
          call.result \in {"ValidationError", "Error"}
    /\ call.result = "ValidationError" =>
          /\ ~InRanges(cur) \/ invalid[Inst(call.c)] # {}
          /\ db = base[call.c]
    /\ call.result = "Error" =>
          /\ cur.commissionRate = pre.commissionRate
          /\ cur.codCommissionRate = pre.codCommissionRate
          /\ cur.statistics = pre.statistics
    /\ call.op = "load" => (cur = db /\ InRanges(cur) /\ invalid[call.c] = {})

\* incrementProductCount(-1) on a fresh account: the save is rejected
C13_Witness ==
    /\ call.op = "incrementProductCount"
    /\ call.args.count = -1
    /\ call.result = "ValidationError"
    /\ cur.statistics.totalProducts = -1
    /\ db.statistics.totalProducts = 0

\* C14: save does no version check and the last writer wins. A call of
\* incrementProductCount(n) or addEarnings(amount, false) succeeds whenever
\* its own copy passes the method's and the schema's checks, however stale
\* the copy is, and it stores the counter of the caller's copy plus the
\* argument over whatever another caller stored since the copy was loaded,
\* so that an increment of another caller can be lost.
C14_LastWriterWins ==
    /\ call.op = "incrementProductCount" =>
          /\ call.result = "ok" <=> SchemaValid(cur)
          /\ call.result = "ok" =>
                /\ call.stored.statistics.totalProducts =
                       pre.statistics.totalProducts + call.args.count
                /\ call.stored.statistics.activeProducts =
                       pre.statistics.activeProducts + call.args.count
    /\ (call.op = "addEarnings" /\ ~call.args.isPending) =>
          /\ call.result = "ok" <=> (call.args.amount >= 0 /\ SchemaValid(cur))
          /\ call.result = "ok" =>
                call.stored.statistics.totalEarnings =
                   pre.statistics.totalEarnings + call.args.amount

\* both callers loaded the account at totalProducts = 0, both calls of
\* incrementProductCount(1) succeeded, and the stored counter is 1
C14_Witness ==
    /\ call.op = "incrementProductCount"
    /\ call.result = "ok"
    /\ ledger.added = 2
    /\ db.statistics.totalProducts = 1
    /\ \A c \in Callers : doc[c].statistics.totalProducts = 1

\* C15: a suspension does not expire by itself. After suspend, whatever its
\* number of days, the status is suspended at every later clock value until
\* the next call; a suspended account leaves the status only by approve,
\* unsuspend or block; and getEligibility on a suspended account gives every
\* status-gated flag false, also after suspendedUntil has passed.
C15_NoExpiry ==
    /\ call.op = "suspend" =>
          /\ call.result = "ok"
          /\ cur.status = "suspended"
          /\ db.status = "suspended"
          /\ cur.suspendedUntil = call.at + call.args.days
    /\ (pre.status = "suspended" /\ cur.status # "suspended") =>
          call.args.op \in {"approve", "unsuspend", "block"}
    /\ \A c \in Callers :
          doc[c].status = "suspended" =>
              \A k \in DOMAIN getEligibility(doc[c]) : ~getEligibility(doc[c])[k]
    /\ (call.op = "getEligibility" /\ pre.status = "suspended") =>
          \A k \in DOMAIN call.ret : ~call.ret[k]

\* getEligibility is called on a suspended account after the deadline of a
\* suspension of SuspendDays days has passed
C15_Witness ==
    /\ call.op = "getEligibility"
    /\ pre.status = "suspended"
    /\ pre.suspendedUntil = pre.statusChangedAt + SuspendDays
    /\ call.at > pre.suspendedUntil
    /\ ~call.ret.canListProducts
    /\ cur.status = "suspended"

\* C16: every successful call of a mutating method sets lastActivityAt to the
\* time of the call (a clock value between the call and the moment its save
\* settled), also when its arguments leave every other field as it was, as
\* updateCODSettings(enabled) with enabled equal to the current codEnabled
\* and no rate does.
C16_TouchesLastActivity ==
    (/\ call.result = "ok"
     /\ call.op \in {"approve", "block", "suspend", "unsuspend", "updateCommissionRate",
                     "updateCODSettings", "updateBankDetails", "updateAddress",
                     "updateStatistics", "incrementProductCount",
                     "decrementProductCount", "recordOrder", "updateRating",
                     "addEarnings", "recordWithdrawal", "markDocumentAsVerified"})
        => /\ cur.lastActivityAt \in call.at .. call.done
           /\ db.lastActivityAt \in call.at .. call.done

\* C17: markDocumentAsVerified(kind) fails and changes nothing for a kind
\* outside gst, pan, bank, address. For a kind among them it sets the one
\* flag of that kind to true, leaves the other three flags as they were,
\* sets documentVerifiedAt to the time of the call, sets bankDetails.isVerified
\* and bankDetails.verifiedAt only for bank, and leaves bankDetails as it was
\* for gst, pan and address.
C17_MarkDocumentAsVerified ==
    call.op = "markDocumentAsVerified" =>
        LET kind  == call.args.documentType
            flags == {"gstVerified", "panVerified", "bankVerified", "addressVerified"}
            flag  == CASE kind = "gst"     -> "gstVerified"
                       [] kind = "pan"     -> "panVerified"
                       [] kind = "bank"    -> "bankVerified"
                       [] kind = "address" -> "addressVerified"
                       [] OTHER            -> "none"
        IN  IF flag = "none"
            THEN /\ call.result = "Error"
                 /\ cur = pre
                 /\ db = base[call.c]
            ELSE /\ call.result = "ok"
                 /\ db = cur
                 /\ cur.documentVerification[flag] = TRUE
                 /\ \A k \in flags \ {flag} :
                       cur.documentVerification[k] = pre.documentVerification[k]
                 /\ cur.documentVerification.documentVerifiedAt = call.at
                 /\ cur.documentVerification.documentSubmittedAt =
                       pre.documentVerification.documentSubmittedAt
                 /\ IF kind = "bank"
                    THEN /\ cur.bankDetails.isVerified = TRUE
                         /\ cur.bankDetails.verifiedAt = call.at
                         /\ DOMAIN cur.bankDetails = DOMAIN pre.bankDetails
                         /\ \A k \in DOMAIN pre.bankDetails \ {"isVerified", "verifiedAt"} :
                               cur.bankDetails[k] = pre.bankDetails[k]
                    ELSE cur.bankDetails = pre.bankDetails
                 /\ \A f \in DOMAIN cur \ {"documentVerification", "bankDetails",
                                            "lastActivityAt"} : cur[f] = pre[f]

\* markDocumentAsVerified('gst') on an account whose pan is verified and
\* whose bank details are filled in and not verified
C17_Witness ==
    /\ call.op = "markDocumentAsVerified"
    /\ call.args.documentType = "gst"
    /\ call.result = "ok"
    /\ pre.documentVerification.panVerified
    /\ ~pre.documentVerification.gstVerified
    /\ "accountNumber" \in DOMAIN pre.bankDetails
    /\ ~cur.bankDetails.isVerified
    /\ cur.documentVerification.gstVerified

\* C18: with callers that each load the account, call recordWithdrawal and
\* save, once every call has settled the amounts of the successful
\* recordWithdrawal calls sum to no more than the amounts credited by
\* addEarnings(amount, false), and the stored withdrawnAmount is the sum of
\* the successful withdrawals.
C18_NoDoubleWithdrawal ==
    (\A c \in Callers : saving[c] = NoSave) =>
        /\ ledger.withdrawn <= ledger.credited
        /\ db.statistics.withdrawnAmount = ledger.withdrawn

\* C19: in every state reachable from a fresh account by approve, block,
\* suspend and unsuspend, suspendedUntil is set if and only if the status is
\* suspended; approve or block on a suspended account leaves no deadline.
C19_DeadlineIffSuspended ==
    /\ (cur.suspendedUntil # NoDate) <=> (cur.status = "suspended")
    /\ (db.suspendedUntil # NoDate) <=> (db.status = "suspended")

\* C20: in every state reachable from a fresh account by approve, block,
\* suspend and unsuspend, an approved account has approvedAt set and isActive
\* true: no account is approved without having passed through approve.
C20_ApprovedWasApproved ==
    /\ cur.status = "approved" => (cur.approvedAt # NoDate /\ cur.isActive)
    /\ db.status = "approved" => (db.approvedAt # NoDate /\ db.isActive)

====
